---------------------------- MODULE Spec2Model ----------------------------
(***************************************************************************)
(* PH Legal Document Generator API (src/main.py, src/schemas.py).          *)
(*                                                                         *)
(* The state is the document store (collections legaltemplate and          *)
(* generateddocument), the database handle of the running process, and     *)
(* the last handler that ran together with its inputs, locals and result.  *)
(*                                                                         *)
(* Text is a sequence of symbols.  A symbol is one character ("{", "}",    *)
(* " ", "\n", "a", ...).  In the built-in catalog a maximal run of body    *)
(* text that holds no brace and no line break is carried as the single     *)
(* symbol "t" (" " when the run is blank), and a placeholder key is        *)
(* carried as one key symbol ("full_name"); braces and line breaks are     *)
(* kept one by one, so the token scanner and the line splitter see the     *)
(* structure they see in the source.                                       *)
(*                                                                         *)
(* An optional value (Optional[...] = None in schemas.py, or a field that  *)
(* a stored record may lack) is a sequence of length 0 (absent) or 1.      *)
(***************************************************************************)
EXTENDS Integers, Sequences, FiniteSets, TLC

VARIABLES
  db,                 \* database.db: TRUE when the handle exists, FALSE for None
  env,                \* the process environment: DATABASE_URL, DATABASE_NAME
  legaltemplate,      \* the legaltemplate collection, in store order
  generateddocument,  \* the generateddocument collection, in store order
  last                \* the handler that ran last: inputs, locals, response

vars == << db, env, legaltemplate, generateddocument, last >>

None == << >>
Some(x) == << x >>
IsNone(o) == o = << >>

(***************************************************************************)
(* Bounds of the model.                                                    *)
(***************************************************************************)
MaxLen == 6          \* longest free-form template string that is rendered
MaxStored == 3       \* records written to legaltemplate from outside the service
MaxGenerated == 1    \* records kept in generateddocument
MaxAck == 5          \* longest acknowledgement text of a sampled template

(***************************************************************************)
(* Symbols.                                                                *)
(***************************************************************************)
NL == "\n"
WhiteSpace == { " ", NL, "\t" }                         \* the regex class \s
Braces == { "{", "}" }
OtherSymbols == { "t", "<p>", "</p>", "<br/>", "(", "," }  \* outside [a-zA-Z0-9_.-]

\* [a-zA-Z0-9_\.\-] : every symbol that is not white space, a brace or
\* one of the symbols above is a key character (or a run of them).
IsKeyChar(c) == c \notin WhiteSpace /\ c \notin Braces /\ c \notin OtherSymbols

(***************************************************************************)
(* Rendering engine: render_template_text and text_to_html.                *)
(***************************************************************************)

\* An answer value is a JSON scalar: a string or a number.
StrVal(s) == [t |-> "str", s |-> s]
IntVal(n) == [t |-> "int", n |-> n]

Digit(d) == CASE d = 0 -> "0" [] d = 1 -> "1" [] d = 2 -> "2" [] d = 3 -> "3"
              [] d = 4 -> "4" [] d = 5 -> "5" [] d = 6 -> "6" [] d = 7 -> "7"
              [] d = 8 -> "8" [] d = 9 -> "9"

RECURSIVE Digits(_)
Digits(n) == IF n < 10 THEN << Digit(n) >>
             ELSE Append(Digits(n \div 10), Digit(n % 10))

\* str(value)
str(value) == IF value.t = "str" THEN value.s
              ELSE IF value.n < 0 THEN << "-" >> \o Digits(0 - value.n)
              ELSE Digits(value.n)

\* first index >= i of s whose symbol is not white space (Len(s)+1 if none): \s*
RECURSIVE SkipWs(_, _)
SkipWs(s, i) == IF i <= Len(s) /\ s[i] \in WhiteSpace THEN SkipWs(s, i + 1) ELSE i

\* first index >= i of s whose symbol is no key character: [a-zA-Z0-9_\.\-]+
RECURSIVE SkipKey(_, _)
SkipKey(s, i) == IF i <= Len(s) /\ IsKeyChar(s[i]) THEN SkipKey(s, i + 1) ELSE i

\* The pattern \{\{\s*([a-zA-Z0-9_\.\-]+)\s*\}\} tried at index i of s.
\* The three classes are disjoint, so the greedy match is the only match.
re_match(s, i) ==
  LET j == SkipWs(s, i + 2)
      k == SkipKey(s, j)
      m == SkipWs(s, k)
  IN  IF /\ i + 1 <= Len(s)
         /\ s[i] = "{" /\ s[i + 1] = "{"
         /\ k > j
         /\ m + 1 <= Len(s)
         /\ s[m] = "}" /\ s[m + 1] = "}"
      THEN [found |-> TRUE, first |-> i, end |-> m + 1, group1 |-> SubSeq(s, j, k - 1)]
      ELSE [found |-> FALSE, first |-> i, end |-> i, group1 |-> << >>]

\* repl with the lookup done on the whole token text (match.group(0)).
repl_group0(match, answers) ==
  LET key == << "{", "{" >> \o match.group1 \o << "}", "}" >>
  IN  str(IF key \in DOMAIN answers THEN answers[key]
          ELSE StrVal(<< "{", "{" >> \o match.group1 \o << "}", "}" >>))

\* repl: answers.get(key, "{{" + key + "}}"), then str()
repl(match, answers) ==
  LET key == match.group1
  IN  str(IF key \in DOMAIN answers THEN answers[key]
          ELSE StrVal(<< "{", "{" >> \o key \o << "}", "}" >>))

\* re.sub: leftmost non-overlapping matches, replaced text is not scanned again
RECURSIVE re_sub(_, _, _)
re_sub(s, answers, i) ==
  IF i > Len(s) THEN << >>
  ELSE LET match == re_match(s, i)
       IN  IF match.found
           THEN repl(match, answers) \o re_sub(s, answers, match.end + 1)
           ELSE << s[i] >> \o re_sub(s, answers, i + 1)

render_template_text(template, answers) == re_sub(template, answers, 1)

\* line.strip() is non-empty
NonBlank(line) == \E i \in 1..Len(line) : line[i] \notin WhiteSpace

\* text.split("\n"): the lines of text, line n being what lies between the
\* separator before it and the separator after it (or an end of the text)
split(text) ==
  LET seps == { i \in 1..Len(text) : text[i] = NL }
      sep(n) == IF n = 0 THEN 0
                ELSE IF n > Cardinality(seps) THEN Len(text) + 1
                ELSE CHOOSE i \in seps : Cardinality({ j \in seps : j <= i }) = n
  IN  [n \in 1..(Cardinality(seps) + 1) |-> SubSeq(text, sep(n - 1) + 1, sep(n) - 1)]

\* "\n".join(lines)
RECURSIVE join(_)
join(lines) == IF Len(lines) = 0 THEN << >>
               ELSE IF Len(lines) = 1 THEN lines[1]
               ELSE lines[1] \o << NL >> \o join(Tail(lines))

text_to_html(text) ==
  LET lines == split(text)
      html_lines == [n \in 1..Len(lines) |->
                       IF NonBlank(lines[n])
                       THEN << "<p>" >> \o lines[n] \o << "</p>" >>
                       ELSE << "<br/>" >>]
  IN  join(html_lines)

(***************************************************************************)
(* Built-in template catalog (DEFAULT_TEMPLATES of src/main.py).           *)
(***************************************************************************)
TPL_affidavit_of_loss ==
  [ key |-> "affidavit_of_loss",
    title |-> "Affidavit of Loss",
    category |-> "Affidavits",
    jurisdiction |-> "Republic of the Philippines",
    requires_notarization |-> TRUE,
    questions |->
      << "full_name", "civil_status", "citizenship", "address", "id_type", "id_number",
         "lost_item", "place_lost", "date_lost", "circumstances", "city" >>,
    content |->
      << "t", "\n", "\n", "t", "\n", "\n", "t", "{", "{", "full_name", "}", "}", "t", "{",
         "{", "civil_status", "}", "}", "t", "{", "{", "address", "}", "}", "t", "\n",
         "\n", "t", "{", "{", "lost_item", "}", "}", "t", "\n", "t", "{", "{", "date_lost",
         "}", "}", "t", "{", "{", "place_lost", "}", "}", "t", "{", "{", "circumstances",
         "}", "}", "t", "\n", "t", "\n", "t", "\n", "\n", "t", "{", "{", "city", "}", "}",
         "t", "\n", "\n", "t", "{", "{", "full_name", "}", "}", "\n", "t", "{", "{",
         "id_type", "}", "}", "t", "{", "{", "id_number", "}", "}", "t", "\n" >>,
    acknowledgement |-> <<
      << "t", "{", "{", "city", "}", "}", "t", "\n", "\n", "t", "\n", "t", "\n", "t", "\n",
         "t" >> >> ]

TPL_deed_of_absolute_sale ==
  [ key |-> "deed_of_absolute_sale",
    title |-> "Deed of Absolute Sale",
    category |-> "Contracts",
    jurisdiction |-> "Republic of the Philippines",
    requires_notarization |-> TRUE,
    questions |->
      << "seller_name", "seller_address", "buyer_name", "buyer_address",
         "property_description", "sale_price", "city", "date" >>,
    content |->
      << "t", "\n", "\n", "t", "\n", "\n", "t", "\n", "\n", "t", "{", "{", "date", "}",
         "}", "t", "{", "{", "city", "}", "}", "t", "\n", "{", "{", "seller_name", "}",
         "}", "t", "{", "{", "seller_address", "}", "}", "t", "\n", "{", "{", "buyer_name",
         "}", "}", "t", "{", "{", "buyer_address", "}", "}", "t", "\n", "\n", "t", "{",
         "{", "sale_price", "}", "}", "t", "\n", "\n", "{", "{", "property_description",
         "}", "}", "\n", "\n", "t", "\n", "\n", "t", "{", "{", "date", "}", "}", "t", "{",
         "{", "city", "}", "}", "t", "\n", "\n", "t", "{", "{", "seller_name", "}", "}",
         "\n", "t", "{", "{", "buyer_name", "}", "}", "\n" >>,
    acknowledgement |-> <<
      << "t", "{", "{", "city", "}", "}", "t", "{", "{", "date", "}", "}", "t", "{", "{",
         "seller_name", "}", "}", "t", "{", "{", "buyer_name", "}", "}", "t", "\n", "\n",
         "t" >> >> ]

TPL_special_power_of_attorney ==
  [ key |-> "special_power_of_attorney",
    title |-> "Special Power of Attorney",
    category |-> "Affidavits / SPA",
    jurisdiction |-> "Republic of the Philippines",
    requires_notarization |-> TRUE,
    questions |->
      << "principal_name", "principal_civil_status", "principal_citizenship",
         "principal_address", "agent_name", "agent_address", "powers", "validity", "city",
         "date" >>,
    content |->
      << "t", "\n", "\n", "t", "\n", "\n", "t", "\n", "\n", "t", "{", "{",
         "principal_name", "}", "}", "t", "{", "{", "principal_civil_status", "}", "}",
         "t", "{", "{", "principal_citizenship", "}", "}", "t", "{", "{",
         "principal_address", "}", "}", "t", "{", "{", "agent_name", "}", "}", "t", "{",
         "{", "agent_address", "}", "}", "t", "\n", "\n", "{", "{", "powers", "}", "}",
         "\n", "\n", "t", "{", "{", "validity", "}", "}", "t", "\n", "\n", "t", "{", "{",
         "date", "}", "}", "t", "{", "{", "city", "}", "}", "t", "\n", "\n", "t", "{", "{",
         "principal_name", "}", "}", "\n", "t", "{", "{", "agent_name", "}", "}", "\n" >>,
    acknowledgement |-> <<
      << "t", "{", "{", "city", "}", "}", "t", "{", "{", "date", "}", "}", "t", "{", "{",
         "principal_name", "}", "}", "t", "\n", "\n", "t" >> >> ]

TPL_affidavit_of_support_and_consent ==
  [ key |-> "affidavit_of_support_and_consent",
    title |-> "Affidavit of Support and Consent",
    category |-> "Affidavits",
    jurisdiction |-> "Republic of the Philippines",
    requires_notarization |-> TRUE,
    questions |->
      << "affiant_name", "affiant_civil_status", "affiant_citizenship", "affiant_address",
         "beneficiary_name", "relationship", "purpose", "city", "date" >>,
    content |->
      << "t", "\n", "\n", "t", "\n", "\n", "t", "{", "{", "affiant_name", "}", "}", "t",
         "{", "{", "affiant_civil_status", "}", "}", "t", "{", "{", "affiant_citizenship",
         "}", "}", "t", "{", "{", "affiant_address", "}", "}", "t", "\n", "\n", "t", "{",
         "{", "relationship", "}", "}", "t", "{", "{", "beneficiary_name", "}", "}", "t",
         "\n", "t", "\n", "t", "{", "{", "purpose", "}", "}", "t", "\n", "t", "\n", "\n",
         "t", "{", "{", "date", "}", "}", "t", "{", "{", "city", "}", "}", "t", "\n", "\n",
         "t", "{", "{", "affiant_name", "}", "}", "\n" >>,
    acknowledgement |-> <<
      << "t", "{", "{", "date", "}", "}", "t", "{", "{", "city", "}", "}", "t", "\n", "\n",
         "t" >> >> ]

TPL_affidavit_of_discrepancy ==
  [ key |-> "affidavit_of_discrepancy",
    title |-> "Affidavit of Discrepancy",
    category |-> "Affidavits",
    jurisdiction |-> "Republic of the Philippines",
    requires_notarization |-> TRUE,
    questions |->
      << "affiant_name", "civil_status", "citizenship", "address", "correct_entry",
         "erroneous_entry", "record_type", "agency", "city", "date" >>,
    content |->
      << "t", "\n", "\n", "t", "\n", "\n", "t", "{", "{", "affiant_name", "}", "}", "t",
         "{", "{", "civil_status", "}", "}", "t", "{", "{", "citizenship", "}", "}", "t",
         "{", "{", "address", "}", "}", "t", "\n", "\n", "t", "{", "{", "record_type", "}",
         "}", "t", "{", "{", "agency", "}", "}", "t", "\n", "t", "{", "{", "correct_entry",
         "}", "}", "t", "{", "{", "erroneous_entry", "}", "}", "t", "\n", "t", "\n", "\n",
         "t", "{", "{", "date", "}", "}", "t", "{", "{", "city", "}", "}", "t", "\n", "\n",
         "t", "{", "{", "affiant_name", "}", "}", "\n" >>,
    acknowledgement |-> <<
      << "t", "{", "{", "date", "}", "}", "t", "{", "{", "city", "}", "}", "t", "\n", "\n",
         "t" >> >> ]

TPL_promissory_note ==
  [ key |-> "promissory_note",
    title |-> "Promissory Note",
    category |-> "Contracts",
    jurisdiction |-> "Republic of the Philippines",
    requires_notarization |-> TRUE,
    questions |->
      << "debtor_name", "debtor_address", "creditor_name", "amount", "interest",
         "due_date", "city", "date" >>,
    content |->
      << "t", "\n", "\n", "t", "\n", "\n", "t", "{", "{", "debtor_name", "}", "}", "t",
         "{", "{", "debtor_address", "}", "}", "t", "{", "{", "creditor_name", "}", "}",
         "t", "{", "{", "amount", "}", "}", "t", "{", "{", "interest", "}", "}", "t", "{",
         "{", "due_date", "}", "}", "t", "\n", "\n", "t", "\n", "\n", "t", "{", "{",
         "date", "}", "}", "t", "{", "{", "city", "}", "}", "t", "\n", "\n", "t", "{", "{",
         "debtor_name", "}", "}", "\n" >>,
    acknowledgement |-> <<
      << "t", "{", "{", "date", "}", "}", "t", "{", "{", "city", "}", "}", "t", "{", "{",
         "debtor_name", "}", "}", "t", "\n", "\n", "t" >> >> ]

TPL_lease_agreement_residential ==
  [ key |-> "lease_agreement_residential",
    title |-> "Residential Lease Agreement",
    category |-> "Contracts",
    jurisdiction |-> "Republic of the Philippines",
    requires_notarization |-> TRUE,
    questions |->
      << "lessor_name", "lessor_address", "lessee_name", "lessee_address",
         "property_address", "term_months", "monthly_rent", "deposit", "advance",
         "start_date", "city", "date" >>,
    content |->
      << "t", "\n", "\n", "t", "\n", "\n", "t", "{", "{", "date", "}", "}", "t", "{", "{",
         "city", "}", "}", "t", "{", "{", "lessor_name", "}", "}", "t", "{", "{",
         "lessor_address", "}", "}", "t", "{", "{", "lessee_name", "}", "}", "t", "{", "{",
         "lessee_address", "}", "}", "t", "\n", "\n", "t", "{", "{", "property_address",
         "}", "}", "\n", "t", "{", "{", "term_months", "}", "}", "t", "{", "{",
         "start_date", "}", "}", "\n", "t", "{", "{", "monthly_rent", "}", "}", "t", "\n",
         "t", "{", "{", "deposit", "}", "}", "t", "{", "{", "advance", "}", "}", "\n", "t",
         "\n", "\n", "t", "\n", "\n", "t", "{", "{", "lessor_name", "}", "}", "\n", "t",
         "{", "{", "lessee_name", "}", "}", "\n" >>,
    acknowledgement |-> <<
      << "t", "{", "{", "city", "}", "}", "t", "{", "{", "date", "}", "}", "t", "{", "{",
         "lessor_name", "}", "}", "t", "{", "{", "lessee_name", "}", "}", "t", "\n", "\n",
         "t" >> >> ]

TPL_consent_to_travel_minor ==
  [ key |-> "consent_to_travel_minor",
    title |-> "Parental Consent for Minor to Travel",
    category |-> "Affidavits",
    jurisdiction |-> "Republic of the Philippines",
    requires_notarization |-> TRUE,
    questions |->
      << "parent_name", "parent_address", "minor_name", "minor_birthdate",
         "companion_name", "destination", "travel_dates", "purpose", "city", "date" >>,
    content |->
      << "t", "\n", "\n", "t", "\n", "\n", "t", "{", "{", "parent_name", "}", "}", "t",
         "{", "{", "parent_address", "}", "}", "t", "{", "{", "minor_name", "}", "}", "t",
         "{", "{", "minor_birthdate", "}", "}", "t", "{", "{", "destination", "}", "}",
         "t", "{", "{", "travel_dates", "}", "}", "t", "{", "{", "companion_name", "}",
         "}", "t", "{", "{", "purpose", "}", "}", "t", "\n", "\n", "t", "\n", "\n", "t",
         "{", "{", "date", "}", "}", "t", "{", "{", "city", "}", "}", "t", "\n", "\n", "t",
         "{", "{", "parent_name", "}", "}", "\n" >>,
    acknowledgement |-> <<
      << "t", "{", "{", "date", "}", "}", "t", "{", "{", "city", "}", "}", "t", "\n", "\n",
         "t" >> >> ]

DEFAULT_TEMPLATES ==
  << TPL_affidavit_of_loss,
     TPL_deed_of_absolute_sale,
     TPL_special_power_of_attorney,
     TPL_affidavit_of_support_and_consent,
     TPL_affidavit_of_discrepancy,
     TPL_promissory_note,
     TPL_lease_agreement_residential,
     TPL_consent_to_travel_minor >>

(***************************************************************************)
(* Schemas (src/schemas.py) and stored records.                            *)
(*                                                                         *)
(* A LegalTemplate carries the fields the handlers read: key, title,       *)
(* category, jurisdiction, requires_notarization, questions (the question  *)
(* keys, in order), content and the optional acknowledgement.              *)
(* A stored record of legaltemplate has _id and the same fields, each of   *)
(* them optional: a record written from outside may lack any of them.      *)
(***************************************************************************)

\* d.pop("_id", None)
pop_id(d) == [f \in (DOMAIN d) \ { "_id" } |-> d[f]]

\* LegalTemplate(**d): the required fields (key, title, questions, content)
\* must be present, the others take their defaults; raised = ValidationError
LegalTemplate(d) ==
  IF IsNone(d.key) \/ IsNone(d.title) \/ IsNone(d.questions) \/ IsNone(d.content)
  THEN [raised |-> TRUE]
  ELSE [raised |-> FALSE,
        tpl |-> [ key |-> d.key[1],
                  title |-> d.title[1],
                  category |-> IF IsNone(d.category) THEN "General" ELSE d.category[1],
                  jurisdiction |-> IF IsNone(d.jurisdiction)
                                   THEN "Republic of the Philippines"
                                   ELSE d.jurisdiction[1],
                  requires_notarization |-> IF IsNone(d.requires_notarization) THEN TRUE
                                            ELSE d.requires_notarization[1],
                  questions |-> d.questions[1],
                  content |-> d.content[1],
                  acknowledgement |-> d.acknowledgement ]]

\* the fields of a LegalTemplate as they are written to the store
TemplateData(tpl) ==
  [ key |-> Some(tpl.key), title |-> Some(tpl.title), category |-> Some(tpl.category),
    jurisdiction |-> Some(tpl.jurisdiction),
    requires_notarization |-> Some(tpl.requires_notarization),
    questions |-> Some(tpl.questions), content |-> Some(tpl.content),
    acknowledgement |-> tpl.acknowledgement ]

\* GeneratedDocument(template_key=..., answers=..., rendered_text=..., ...)
GeneratedDocument(template_key, answers, rendered_text, rendered_html, title) ==
  [ template_key |-> template_key, answers |-> answers, rendered_text |-> rendered_text,
    rendered_html |-> rendered_html, title |-> title ]

(***************************************************************************)
(* Persistence layer (database.py).                                        *)
(***************************************************************************)

\* create_document(collection_name, data): raises when there is no handle
\* or the insert fails; otherwise the record is appended with a fresh _id
create_document(coll, data, dbv, ioFails) ==
  IF ~dbv \/ ioFails
  THEN [raised |-> TRUE, coll |-> coll]
  ELSE [raised |-> FALSE, coll |-> Append(coll, [_id |-> Len(coll) + 1] @@ data)]

\* get_documents(collection_name): every record of the collection, in store
\* order; an empty list without a handle; raises when the read fails
get_documents(coll, dbv, ioFails) ==
  IF ~dbv THEN [raised |-> FALSE, docs |-> << >>]
  ELSE IF ioFails THEN [raised |-> TRUE, docs |-> << >>]
  ELSE [raised |-> FALSE, docs |-> coll]

\* db["legaltemplate"].count_documents({})
count_documents(coll, ioFails) ==
  IF ioFails THEN [raised |-> TRUE, n |-> 0] ELSE [raised |-> FALSE, n |-> Len(coll)]

(***************************************************************************)
(* Startup seeding.                                                        *)
(***************************************************************************)

\* the seeding loop that stops one entry short of the end of the catalog
RECURSIVE seed_loop_short(_, _, _, _)
seed_loop_short(coll, i, dbv, failAt) ==
  IF i >= Len(DEFAULT_TEMPLATES)
  THEN [raised |-> FALSE, coll |-> coll, inserted |-> i - 1]
  ELSE LET r == create_document(coll, TemplateData(DEFAULT_TEMPLATES[i]), dbv, i = failAt)
       IN  IF r.raised
           THEN [raised |-> TRUE, coll |-> coll, inserted |-> i - 1]
           ELSE seed_loop_short(r.coll, i + 1, dbv, failAt)

\* for tpl in DEFAULT_TEMPLATES: create_document("legaltemplate", tpl)
\* from entry i on; the insert of entry failAt raises (none when failAt is
\* beyond the catalog)
RECURSIVE seed_loop(_, _, _, _)
seed_loop(coll, i, dbv, failAt) ==
  IF i > Len(DEFAULT_TEMPLATES)
  THEN [raised |-> FALSE, coll |-> coll, inserted |-> i - 1]
  ELSE LET r == create_document(coll, TemplateData(DEFAULT_TEMPLATES[i]), dbv, i = failAt)
       IN  IF r.raised
           THEN [raised |-> TRUE, coll |-> coll, inserted |-> i - 1]
           ELSE seed_loop(r.coll, i + 1, dbv, failAt)

\* seeding that inserts the catalog whatever the collection holds
seed_templates_unguarded(coll, dbv, countFails, failAt) ==
  LET c == IF dbv THEN count_documents(coll, countFails) ELSE [raised |-> FALSE, n |-> 0]
  IN  IF c.raised
      THEN [raised |-> TRUE, coll |-> coll, existing |-> -1, inserted |-> 0]
      ELSE IF dbv
      THEN [existing |-> c.n] @@ seed_loop(coll, 1, dbv, failAt)
      ELSE [raised |-> FALSE, coll |-> coll, existing |-> c.n, inserted |-> 0]

\* seeding that goes on from the entry after the records the collection holds
seed_templates_resumed(coll, dbv, countFails, failAt) ==
  LET c == IF dbv THEN count_documents(coll, countFails) ELSE [raised |-> FALSE, n |-> 0]
  IN  IF c.raised
      THEN [raised |-> TRUE, coll |-> coll, existing |-> -1, inserted |-> 0]
      ELSE IF c.n < Len(DEFAULT_TEMPLATES) /\ dbv
      THEN LET r == seed_loop(coll, c.n + 1, dbv, failAt)
           IN  [raised |-> r.raised, coll |-> r.coll, existing |-> c.n,
                inserted |-> r.inserted - c.n]
      ELSE [raised |-> FALSE, coll |-> coll, existing |-> c.n, inserted |-> 0]

\* seed_templates_if_empty; existing is -1 when the count raised
seed_templates_if_empty(coll, dbv, countFails, failAt) ==
  LET c == IF dbv THEN count_documents(coll, countFails) ELSE [raised |-> FALSE, n |-> 0]
  IN  IF c.raised
      THEN [raised |-> TRUE, coll |-> coll, existing |-> -1, inserted |-> 0]
      ELSE IF c.n = 0 /\ dbv
      THEN [existing |-> c.n] @@ seed_loop(coll, 1, dbv, failAt)
      ELSE [raised |-> FALSE, coll |-> coll, existing |-> c.n, inserted |-> 0]

\* on_startup: try: if db is not None: seed_templates_if_empty()
\*             except Exception: pass
on_startup(coll, dbv, countFails, failAt) ==
  IF dbv
  THEN LET s == seed_templates_if_empty(coll, dbv, countFails, failAt)
       IN  [completed |-> TRUE, seeding |-> TRUE, raised |-> s.raised, coll |-> s.coll,
            existing |-> s.existing, inserted |-> s.inserted]
  ELSE [completed |-> TRUE, seeding |-> FALSE, raised |-> FALSE, coll |-> coll,
        existing |-> -1, inserted |-> 0]

(***************************************************************************)
(* Routes.                                                                 *)
(***************************************************************************)

\* os.getenv(name)
getenv(envv, name) == envv[name]

\* db.list_collection_names(): the collections that hold a record, in an
\* order the driver chooses (the set of the possible lists)
list_collection_names(templates, generated) ==
  LET present == { n \in { "legaltemplate", "generateddocument" } :
                     IF n = "legaltemplate" THEN Len(templates) > 0
                     ELSE Len(generated) > 0 }
  IN  { names \in [1..Cardinality(present) -> present] :
          \A i, j \in 1..Cardinality(present) : names[i] = names[j] => i = j }

\* collections[:10]
first_ten(collections) ==
  SubSeq(collections, 1, IF Len(collections) < 10 THEN Len(collections) ELSE 10)

\* GET /test.  The status texts are the code's without their leading mark
\* (check, cross or warning sign); the error text after "Connected but
\* Error" is left out.  names is what list_collection_names returns when it
\* does not raise (listFails).
test_database(dbv, envv, names, listFails) ==
  LET response == [ backend |-> "Running", database |-> "Not Available",
                    database_url |-> None, database_name |-> None,
                    connection_status |-> "Not Connected", collections |-> << >> ]
      probed ==
        IF dbv
        THEN LET connected == [ response EXCEPT !.database = "Available",
                                                !.database_url = Some("Configured"),
                                                !.database_name = Some("db.name"),
                                                !.connection_status = "Connected" ]
             IN  IF listFails
                 THEN [ connected EXCEPT !.database = "Connected but Error" ]
                 ELSE [ connected EXCEPT !.collections = first_ten(names),
                                         !.database = "Connected & Working" ]
        ELSE [ response EXCEPT !.database = "Available but not initialized" ]
  IN  [ probed EXCEPT
          !.database_url = Some(IF ~IsNone(getenv(envv, "DATABASE_URL"))
                                THEN "Set" ELSE "Not Set"),
          !.database_name = Some(IF ~IsNone(getenv(envv, "DATABASE_NAME"))
                                 THEN "Set" ELSE "Not Set") ]

\* the loop of list_templates in which a record that fails validation
\* ends the request with the error
RECURSIVE list_loop_abort(_, _, _, _)
list_loop_abort(docs, i, out, keys_seen) ==
  IF i > Len(docs) THEN [raised |-> FALSE, out |-> out]
  ELSE LET v == LegalTemplate(pop_id(docs[i]))
       IN  IF v.raised THEN [raised |-> TRUE, out |-> out]
           ELSE IF v.tpl.key \notin keys_seen
           THEN list_loop_abort(docs, i + 1, Append(out, v.tpl), keys_seen \cup { v.tpl.key })
           ELSE list_loop_abort(docs, i + 1, out, keys_seen)

\* the loop of list_templates without the keys_seen test
RECURSIVE list_loop_nodedup(_, _, _, _)
list_loop_nodedup(docs, i, out, keys_seen) ==
  IF i > Len(docs) THEN [raised |-> FALSE, out |-> out]
  ELSE LET v == LegalTemplate(pop_id(docs[i]))
       IN  IF v.raised THEN list_loop_nodedup(docs, i + 1, out, keys_seen)
           ELSE list_loop_nodedup(docs, i + 1, Append(out, v.tpl), keys_seen \cup { v.tpl.key })

\* for d in docs: ... of list_templates, from record i on
RECURSIVE list_loop(_, _, _, _)
list_loop(docs, i, out, keys_seen) ==
  IF i > Len(docs) THEN [raised |-> FALSE, out |-> out]
  ELSE LET v == LegalTemplate(pop_id(docs[i]))
       IN  IF v.raised THEN list_loop(docs, i + 1, out, keys_seen)    \* except: continue
           ELSE IF v.tpl.key \notin keys_seen
           THEN list_loop(docs, i + 1, Append(out, v.tpl), keys_seen \cup { v.tpl.key })
           ELSE list_loop(docs, i + 1, out, keys_seen)

\* list_templates that falls back to the catalog only without a handle
list_templates_nofallback(coll, dbv, readFails) ==
  LET got == IF dbv THEN get_documents(coll, dbv, readFails)
             ELSE [raised |-> FALSE, docs |-> << >>]
      l == list_loop(got.docs, 1, << >>, { })
  IN  IF got.raised \/ l.raised THEN [status |-> 500, body |-> << >>]
      ELSE [status |-> 200, body |-> IF ~dbv THEN DEFAULT_TEMPLATES ELSE l.out]

\* list_templates that completes the store's templates with the built-in
\* templates whose key the store did not yield
list_templates_merged(coll, dbv, readFails) ==
  LET got == IF dbv THEN get_documents(coll, dbv, readFails)
             ELSE [raised |-> FALSE, docs |-> << >>]
      l == list_loop(got.docs, 1, << >>, { })
      seen == { l.out[n].key : n \in 1..Len(l.out) }
  IN  IF got.raised \/ l.raised THEN [status |-> 500, body |-> << >>]
      ELSE [status |-> 200,
            body |-> l.out \o SelectSeq(DEFAULT_TEMPLATES, LAMBDA t : t.key \notin seen)]

\* GET /api/templates; status 500 is the unhandled exception
list_templates(coll, dbv, readFails) ==
  LET got == IF dbv THEN get_documents(coll, dbv, readFails)
             ELSE [raised |-> FALSE, docs |-> << >>]
      l == list_loop(got.docs, 1, << >>, { })
  IN  IF got.raised \/ l.raised THEN [status |-> 500, body |-> << >>]
      ELSE [status |-> 200, body |-> IF l.out = << >> THEN DEFAULT_TEMPLATES ELSE l.out]

\* the lookup with the first template as the default
find_template_first(templates, template_key) ==
  IF \E n \in 1..Len(templates) : templates[n].key = template_key
  THEN Some(templates[CHOOSE n \in 1..Len(templates) :
                        /\ templates[n].key = template_key
                        /\ \A m \in 1..(n - 1) : templates[m].key # template_key])
  ELSE IF Len(templates) > 0 THEN Some(templates[1]) ELSE None

\* next((t for t in templates if t.key == req.template_key), None)
find_template(templates, template_key) ==
  IF \E n \in 1..Len(templates) : templates[n].key = template_key
  THEN Some(templates[CHOOSE n \in 1..Len(templates) :
                        /\ templates[n].key = template_key
                        /\ \A m \in 1..(n - 1) : templates[m].key # template_key])
  ELSE None

\* the insert of generate_document without the try/except around it
persist_unguarded(coll, doc, dbv, ioFails) ==
  LET r == create_document(coll, doc, dbv, ioFails)
  IN  [raised |-> r.raised, insert_raised |-> r.raised, coll |-> r.coll]

\* try: create_document("generateddocument", doc)  except Exception: pass
persist(coll, doc, dbv, ioFails) ==
  LET r == create_document(coll, doc, dbv, ioFails)
  IN  [raised |-> FALSE, insert_raised |-> r.raised, coll |-> r.coll]

\* build_document with the blank test made on the acknowledgement as stored,
\* before substitution
build_document_rawack(tpl, req) ==
  LET rendered_text == render_template_text(tpl.content, req.answers)
      raw_ack == IF IsNone(tpl.acknowledgement) THEN << >> ELSE tpl.acknowledgement[1]
      ack_text == render_template_text(raw_ack, req.answers)
      full_text == IF NonBlank(raw_ack)
                   THEN rendered_text \o << NL, NL >> \o ack_text
                   ELSE rendered_text
      rendered_html == IF req.as_html THEN Some(text_to_html(full_text)) ELSE None
  IN  GeneratedDocument(tpl.key, req.answers, full_text, rendered_html, tpl.title)

\* build_document with the HTML made from the rendered body alone
build_document_bodyhtml(tpl, req) ==
  LET rendered_text == render_template_text(tpl.content, req.answers)
      ack_text == render_template_text(
                    IF IsNone(tpl.acknowledgement) THEN << >> ELSE tpl.acknowledgement[1],
                    req.answers)
      full_text == IF NonBlank(ack_text)
                   THEN rendered_text \o << NL, NL >> \o ack_text
                   ELSE rendered_text
      rendered_html == IF req.as_html THEN Some(text_to_html(rendered_text)) ELSE None
  IN  GeneratedDocument(tpl.key, req.answers, full_text, rendered_html, tpl.title)

\* the document generate_document builds from the template and the request
build_document(tpl, req) ==
  LET rendered_text == render_template_text(tpl.content, req.answers)
      ack_text == render_template_text(
                    IF IsNone(tpl.acknowledgement) THEN << >> ELSE tpl.acknowledgement[1],
                    req.answers)
      full_text == IF NonBlank(ack_text)
                   THEN rendered_text \o << NL, NL >> \o ack_text
                   ELSE rendered_text
      rendered_html == IF req.as_html THEN Some(text_to_html(full_text)) ELSE None
  IN  GeneratedDocument(tpl.key, req.answers, full_text, rendered_html, tpl.title)

\* POST /api/generate; status 500 is the unhandled exception
generate_document(req, coll, gen, dbv, readFails, insertFails) ==
  LET templates == list_templates(coll, dbv, readFails)
      tpl == find_template(templates.body, req.template_key)
  IN  IF templates.status # 200
      THEN [status |-> 500, detail |-> "Internal Server Error", body |-> None,
            insert_raised |-> FALSE, gen |-> gen]
      ELSE IF IsNone(tpl)
      THEN [status |-> 404, detail |-> "Template not found", body |-> None,
            insert_raised |-> FALSE, gen |-> gen]
      ELSE LET doc == build_document(tpl[1], req)
               p == persist(gen, doc, dbv, insertFails)
           IN  IF p.raised
               THEN [status |-> 500, detail |-> "Internal Server Error", body |-> None,
                     insert_raised |-> p.insert_raised, gen |-> p.coll]
               ELSE [status |-> 200, detail |-> "", body |-> Some(doc),
                     insert_raised |-> p.insert_raised, gen |-> p.coll]

(***************************************************************************)
(* Inputs.                                                                 *)
(***************************************************************************)

\* records written to legaltemplate from outside the service
REC_custom_v1 ==
  [ key |-> Some("custom_a"), title |-> Some("Custom A v1"), category |-> None,
    jurisdiction |-> None, requires_notarization |-> None,
    questions |-> Some(<< "a" >>),
    content |-> Some(<< "t", "{", "{", "a", "}", "}" >>),
    acknowledgement |-> None ]

REC_custom_v2 ==
  [ key |-> Some("custom_a"), title |-> Some("Custom A v2"), category |-> Some("Custom"),
    jurisdiction |-> None, requires_notarization |-> Some(FALSE),
    questions |-> Some(<< "a" >>),
    content |-> Some(<< "{", "{", " ", "a", " ", "}", "}", NL, "t" >>),
    acknowledgement |-> Some(<< " ", NL >>) ]

REC_note ==
  [ key |-> Some("promissory_note"), title |-> Some("Stored note"), category |-> None,
    jurisdiction |-> None, requires_notarization |-> None,
    questions |-> Some(<< "amount" >>),
    content |-> Some(<< "t", "{", "{", "amount", "}", "}" >>),
    acknowledgement |-> Some(<< "t", "{", "{", "city", "}", "}" >>) ]

\* a record without content: LegalTemplate(**d) raises
REC_malformed ==
  [ key |-> Some("custom_a"), title |-> Some("Custom A broken"), category |-> None,
    jurisdiction |-> None, requires_notarization |-> None,
    questions |-> Some(<< "a" >>), content |-> None, acknowledgement |-> None ]

StoredRecords == { REC_custom_v1, REC_custom_v2, REC_note, REC_malformed }

NoAnswers == << >>
SomeAnswers == ( << "a" >> :> StrVal(<< "v" >>) ) @@ ( << "amount" >> :> IntVal(15) )

\* GenerateRequest: a stored key, a built-in key and a key of no template
Requests ==
  { [template_key |-> "custom_a", answers |-> SomeAnswers, as_html |-> TRUE],
    [template_key |-> "promissory_note", answers |-> NoAnswers, as_html |-> FALSE],
    [template_key |-> "does_not_exist", answers |-> SomeAnswers, as_html |-> TRUE] }

\* no handler is running and no response is pending
Idle == [op |-> "idle"]

\* whether an operation on the store fails (TRUE): it can only with a handle,
\* without one the store is never reached
IoOutcomes(handle) == IF handle THEN BOOLEAN ELSE { FALSE }

\* a configuration variable is unset (None) or holds a text
NoConfiguration == [ DATABASE_URL |-> None, DATABASE_NAME |-> None ]
Environments == [ DATABASE_URL : { None, Some("mongodb://host") },
                  DATABASE_NAME : { None, Some("appdb") } ]

\* the handle database.py can end with under an environment: none when a
\* variable is missing, none or a handle when both are set
Connect(envv) ==
  IF IsNone(envv.DATABASE_URL) \/ IsNone(envv.DATABASE_NAME) THEN { FALSE } ELSE BOOLEAN

(***************************************************************************)
(* The service.                                                            *)
(***************************************************************************)
Init ==
  /\ db = FALSE
  /\ env = NoConfiguration
  /\ legaltemplate = << >>
  /\ generateddocument = << >>
  /\ last = Idle

\* A process starts: database.py connects (or not), then the startup event.
ProcessStart ==
  /\ last = Idle
  /\ \E envv \in Environments, handle \in BOOLEAN :
       \E countFails \in IoOutcomes(handle) :
         \E failAt \in IF handle /\ ~countFails THEN 1..(Len(DEFAULT_TEMPLATES) + 1)
                       ELSE { Len(DEFAULT_TEMPLATES) + 1 } :
           LET s == on_startup(legaltemplate, handle, countFails, failAt)
           IN  /\ handle \in Connect(envv)
               /\ db' = handle
               /\ env' = envv
               /\ legaltemplate' = s.coll
               /\ last' = [op |-> "startup", completed |-> s.completed,
                           seeding |-> s.seeding, raised |-> s.raised,
                           existing |-> s.existing, inserted |-> s.inserted]
               /\ UNCHANGED generateddocument

\* A record is written to legaltemplate from outside the service.
StoreWrite ==
  \E d \in StoredRecords :
    /\ last = Idle
    /\ Len(legaltemplate) < MaxStored
    /\ legaltemplate' = Append(legaltemplate, [_id |-> Len(legaltemplate) + 1] @@ d)
    /\ UNCHANGED << db, env, generateddocument, last >>

ListTemplates ==
  /\ last = Idle
  /\ \E readFails \in IoOutcomes(db) :
       LET r == list_templates(legaltemplate, db, readFails)
       IN  /\ last' = [op |-> "list", read_raised |-> readFails,
                       status |-> r.status, body |-> r.body]
           /\ UNCHANGED << db, env, legaltemplate, generateddocument >>

TestDatabase ==
  /\ last = Idle
  /\ \E listFails \in IoOutcomes(db),
        names \in list_collection_names(legaltemplate, generateddocument) :
       last' = [op |-> "test", list_raised |-> listFails, status |-> 200,
                body |-> test_database(db, env, names, listFails)]
  /\ UNCHANGED << db, env, legaltemplate, generateddocument >>

GenerateDocument ==
  /\ last = Idle
  /\ \E req \in Requests, readFails \in IoOutcomes(db), insertFails \in IoOutcomes(db) :
       LET r == generate_document(req, legaltemplate, generateddocument, db,
                                  readFails, insertFails)
       IN  /\ Len(r.gen) <= MaxGenerated
           /\ generateddocument' = r.gen
           /\ last' = [op |-> "generate", req |-> req, read_raised |-> readFails,
                       status |-> r.status, detail |-> r.detail, body |-> r.body,
                       insert_raised |-> r.insert_raised]
           /\ UNCHANGED << db, env, legaltemplate >>

\* The response (or the end of the startup event) has been delivered; the
\* handlers run one after the other.
Deliver ==
  /\ last # Idle
  /\ last' = Idle
  /\ UNCHANGED << db, env, legaltemplate, generateddocument >>

Next ==
  ProcessStart \/ StoreWrite \/ ListTemplates \/ GenerateDocument \/ TestDatabase \/ Deliver

Spec == Init /\ [][Next]_vars

(***************************************************************************)
(* The rendering engine on its own: a template string and an answer map    *)
(* are drawn, and rendered once.                                           *)
(***************************************************************************)
Alphabet == { "{", "}", " ", "a" }
Strings == UNION { [1..n -> Alphabet] : n \in 0..MaxLen }

RenderAnswers ==
  { << >>,
    << "a" >> :> StrVal(<< "v" >>),
    ( << "a" >> :> IntVal(40) ) @@ ( << "a", "a" >> :> StrVal(<< "{", "{", "a", "}", "}" >>) ) }

\* the answer maps with a plain value for every question key of tpl
PlainValues == { StrVal(<< "t" >>), IntVal(7) }
CompleteAnswers(tpl) ==
  [ { << tpl.questions[n] >> : n \in 1..Len(tpl.questions) } -> PlainValues ]

InitRender ==
  /\ db = FALSE
  /\ env = NoConfiguration
  /\ legaltemplate = << >>
  /\ generateddocument = << >>
  /\ last = Idle

RenderText ==
  /\ last = Idle
  /\ \E template \in Strings, answers \in RenderAnswers :
       last' = [op |-> "render", template |-> template, answers |-> answers,
                out |-> render_template_text(template, answers)]
  /\ UNCHANGED << db, env, legaltemplate, generateddocument >>

RenderBuiltin ==
  /\ last = Idle
  /\ \E n \in 1..Len(DEFAULT_TEMPLATES) :
       \E answers \in CompleteAnswers(DEFAULT_TEMPLATES[n]) :
         last' = [op |-> "render_builtin", n |-> n, answers |-> answers,
                  out |-> build_document(
                            DEFAULT_TEMPLATES[n],
                            [template_key |-> DEFAULT_TEMPLATES[n].key,
                             answers |-> answers, as_html |-> FALSE]).rendered_text]
  /\ UNCHANGED << db, env, legaltemplate, generateddocument >>

NextRender == RenderText \/ RenderBuiltin

SpecRender == InitRender /\ [][NextRender]_vars

(***************************************************************************)
(* Document generation on its own: a template, an answer map and the       *)
(* as_html flag of the request body are drawn (the store plays no part),   *)
(* and the document is built once.                                         *)
(***************************************************************************)

\* GenerateRequest(**body): as_html defaults to True when the body lacks it
GenerateRequest(template_key, answers, as_html) ==
  [ template_key |-> template_key, answers |-> answers,
    as_html |-> IF IsNone(as_html) THEN TRUE ELSE as_html[1] ]

AckAlphabet == { "{", "}", NL, "a" }
AckTexts == UNION { [1..n -> AckAlphabet] : n \in 0..MaxAck }

\* acknowledgement: absent (None) or any short text
SampleAcknowledgements == { None } \cup { Some(text) : text \in AckTexts }

\* content: plain, ending in an open brace pair, and a token followed by lines
SampleContents ==
  { << "t" >>,
    << "t", NL, "{", "{" >>,
    << "{", "{", "a", "}", "}", NL, " ", NL, "t" >> }

SampleTemplate(content, acknowledgement) ==
  [ key |-> "sample", title |-> "Sample", category |-> "General",
    jurisdiction |-> "Republic of the Philippines", requires_notarization |-> TRUE,
    questions |-> << "a" >>, content |-> content, acknowledgement |-> acknowledgement ]

\* answers: none, a text, a blank text, a number
SampleAnswers ==
  { << >>,
    << "a" >> :> StrVal(<< "v" >>),
    << "a" >> :> StrVal(<< " " >>),
    << "a" >> :> IntVal(0) }

InitGenerate ==
  /\ db = FALSE
  /\ env = NoConfiguration
  /\ legaltemplate = << >>
  /\ generateddocument = << >>
  /\ last = Idle

BuildDocument ==
  /\ last = Idle
  /\ \E content \in SampleContents, acknowledgement \in SampleAcknowledgements,
        answers \in SampleAnswers, as_html \in { None, Some(TRUE), Some(FALSE) } :
       LET tpl == SampleTemplate(content, acknowledgement)
           req == GenerateRequest(tpl.key, answers, as_html)
       IN  last' = [op |-> "build", tpl |-> tpl, as_html |-> as_html, req |-> req,
                    doc |-> build_document(tpl, req)]
  /\ UNCHANGED << db, env, legaltemplate, generateddocument >>

NextGenerate == BuildDocument

SpecGenerate == InitGenerate /\ [][NextGenerate]_vars

(***************************************************************************)
(* Properties.                                                             *)
(***************************************************************************)

\* a stored record passes LegalTemplate(**d), and the template it gives
Usable(d) == ~LegalTemplate(pop_id(d)).raised
TemplateOf(d) == LegalTemplate(pop_id(d)).tpl

\* the positions of the store whose record is usable and whose key no
\* earlier usable record has
FirstUsable(coll) ==
  { i \in DOMAIN coll :
      /\ Usable(coll[i])
      /\ \A j \in 1..(i - 1) :
           Usable(coll[j]) => TemplateOf(coll[j]).key # TemplateOf(coll[i]).key }

KeysOf(templates) == [n \in 1..Len(templates) |-> templates[n].key]
DistinctKeys(templates) ==
  \A m, n \in 1..Len(templates) : templates[m].key = templates[n].key => m = n

\* the list list_templates returns in the current state when the read succeeds
EffectiveCatalog == list_templates(legaltemplate, db, FALSE).body

\* the positions of s at which a placeholder token starts, and the token keys
TokensAt(s) == { i \in 1..Len(s) : re_match(s, i).found }
PlaceholderKeys(s) == { re_match(s, i).group1 : i \in TokensAt(s) }

BuiltinKeys ==
  << "affidavit_of_loss", "deed_of_absolute_sale", "special_power_of_attorney",
     "affidavit_of_support_and_consent", "affidavit_of_discrepancy", "promissory_note",
     "lease_agreement_residential", "consent_to_travel_minor" >>

\* C1: a generate request whose template_key is the key of no template of the
\* effective catalog is answered 404 "Template not found", and the step leaves
\* the generateddocument collection as it was.
C1_UnknownKeyNotFound ==
  [][ ( /\ last'.op = "generate"
        /\ ~last'.read_raised
        /\ \A n \in 1..Len(EffectiveCatalog) :
             EffectiveCatalog[n].key # last'.req.template_key )
      => ( /\ last'.status = 404
           /\ last'.detail = "Template not found"
           /\ IsNone(last'.body)
           /\ generateddocument' = generateddocument ) ]_vars

C1_Witness ==
  /\ last.op = "generate"
  /\ last.status = 404
  /\ last.req.template_key = "does_not_exist"
  /\ db
  /\ FirstUsable(legaltemplate) # { }
  /\ Len(generateddocument) > 0

\* C2: a failing read of legaltemplate is absorbed: list and generate still
\* answer with the fallback behaviour, and the only error a client of the two
\* routes receives is the 404 of an unknown template key.
C2_ReadFailureAbsorbed ==
  /\ last.op = "list" =>
       /\ last.status = 200
       /\ last.read_raised => last.body = DEFAULT_TEMPLATES
  /\ last.op = "generate" =>
       \/ last.status = 200
       \/ /\ last.status = 404
          /\ \A n \in 1..Len(DEFAULT_TEMPLATES) :
               last.read_raised => DEFAULT_TEMPLATES[n].key # last.req.template_key

\* C3: when the template is found, a failing insert into generateddocument
\* (no handle, or the insert raises) is swallowed: the response is 200 with the
\* document built from the first matching template, the one a successful
\* insert returns.
C3_PersistFailureSwallowed ==
  ( /\ last.op = "generate"
    /\ ~last.read_raised
    /\ \E n \in 1..Len(EffectiveCatalog) :
         EffectiveCatalog[n].key = last.req.template_key )
  => /\ last.status = 200
     /\ \E n \in 1..Len(EffectiveCatalog) :
          /\ EffectiveCatalog[n].key = last.req.template_key
          /\ \A m \in 1..(n - 1) : EffectiveCatalog[m].key # last.req.template_key
          /\ last.body = Some(build_document(EffectiveCatalog[n], last.req))
     /\ db => last.body =
                generate_document(last.req, legaltemplate, << >>, db, FALSE, FALSE).body

C3_Witness ==
  /\ last.op = "generate"
  /\ db
  /\ last.insert_raised
  /\ last.status = 200
  /\ ~IsNone(last.body)

\* C4: without a database handle, or when the store holds no usable template,
\* list_templates returns the built-in catalog: eight templates in catalog
\* order with eight pairwise distinct keys.
C4_FallbackIsCatalog ==
  ( /\ last.op = "list"
    /\ last.status = 200
    /\ ~db \/ \A i \in DOMAIN legaltemplate : ~Usable(legaltemplate[i]) )
  => /\ last.body = DEFAULT_TEMPLATES
     /\ Len(last.body) = 8
     /\ KeysOf(last.body) = BuiltinKeys
     /\ DistinctKeys(last.body)

C4_Witness ==
  /\ last.op = "list"
  /\ last.status = 200
  /\ db
  /\ Len(legaltemplate) > 0
  /\ \A i \in DOMAIN legaltemplate : ~Usable(legaltemplate[i])

\* C5: the list returned by list_templates holds no key twice; when the store
\* holds usable records it is, in store order, the first usable record of each
\* key.
C5_FirstOccurrencePerKey ==
  ( last.op = "list" /\ last.status = 200 )
  => /\ DistinctKeys(last.body)
     /\ ( db /\ FirstUsable(legaltemplate) # { } )
        => /\ Len(last.body) = Cardinality(FirstUsable(legaltemplate))
           /\ \A n \in 1..Len(last.body) :
                \E i \in FirstUsable(legaltemplate) :
                  /\ Cardinality({ j \in FirstUsable(legaltemplate) : j <= i }) = n
                  /\ last.body[n] = TemplateOf(legaltemplate[i])

C5_Witness ==
  /\ last.op = "list"
  /\ last.status = 200
  /\ db
  /\ Len(last.body) = 2
  /\ \E i, j, k \in DOMAIN legaltemplate :
       /\ i < j
       /\ Usable(legaltemplate[i]) /\ Usable(legaltemplate[j]) /\ Usable(legaltemplate[k])
       /\ TemplateOf(legaltemplate[i]).key = TemplateOf(legaltemplate[j]).key
       /\ TemplateOf(legaltemplate[i]) # TemplateOf(legaltemplate[j])
       /\ TemplateOf(legaltemplate[k]).key # TemplateOf(legaltemplate[i]).key

\* C6: a stored record that fails validation is dropped and the listing goes
\* on: the request is answered 200, every usable record that is the first of
\* its key is returned, and nothing is returned that is not a usable record.
C6_MalformedRecordSkipped ==
  ( last.op = "list" /\ ~last.read_raised )
  => /\ last.status = 200
     /\ db => \A i \in FirstUsable(legaltemplate) :
                \E n \in 1..Len(last.body) : last.body[n] = TemplateOf(legaltemplate[i])
     /\ ( db /\ FirstUsable(legaltemplate) # { } )
        => \A n \in 1..Len(last.body) :
             \E i \in DOMAIN legaltemplate :
               Usable(legaltemplate[i]) /\ last.body[n] = TemplateOf(legaltemplate[i])

C6_Witness ==
  /\ last.op = "list"
  /\ last.status = 200
  /\ db
  /\ \E i, j, k \in DOMAIN legaltemplate :
       /\ i < j /\ j < k
       /\ Usable(legaltemplate[i]) /\ ~Usable(legaltemplate[j]) /\ Usable(legaltemplate[k])
       /\ last.body = << TemplateOf(legaltemplate[i]), TemplateOf(legaltemplate[k]) >>

\* the collection holds exactly one record for each built-in template key
OneRecordPerBuiltinKey(coll) ==
  \A n \in 1..Len(DEFAULT_TEMPLATES) :
    Cardinality({ i \in DOMAIN coll : coll[i].key = Some(DEFAULT_TEMPLATES[n].key) }) = 1

\* the collection is the first k entries of the catalog, in catalog order
IsCatalogPrefix(coll, k) ==
  /\ Len(coll) = k
  /\ \A i \in 1..k : Usable(coll[i]) /\ TemplateOf(coll[i]) = DEFAULT_TEMPLATES[i]

\* C7 as stated: after a process start with a handle and an empty
\* legaltemplate collection, the collection holds one record for each of the
\* eight built-in keys.
C7_SeedingInsertsAll ==
  [][ ( last'.op = "startup" /\ db' /\ legaltemplate = << >> )
      => ( Len(legaltemplate') = 8 /\ OneRecordPerBuiltinKey(legaltemplate') ) ]_vars

\* C7 amended: after a process start with a handle and an empty collection,
\* startup has completed and the collection holds the first k catalog entries
\* in catalog order, k being the number of inserts done before the emptiness
\* check or an insert raised; when nothing raised it holds one record for each
\* of the eight built-in keys.
C7_SeedingInsertsUntilFailure ==
  [][ ( last'.op = "startup" /\ db' /\ legaltemplate = << >> )
      => ( /\ last'.completed
           /\ last'.inserted \in 0..Len(DEFAULT_TEMPLATES)
           /\ IsCatalogPrefix(legaltemplate', last'.inserted)
           /\ ~last'.raised => ( /\ Len(legaltemplate') = 8
                                 /\ OneRecordPerBuiltinKey(legaltemplate') ) ) ]_vars

C7_Witness ==
  /\ last.op = "startup"
  /\ db
  /\ ~last.raised
  /\ last.existing = 0
  /\ last.inserted = 8
  /\ OneRecordPerBuiltinKey(legaltemplate)

\* C8: a process start that finds the legaltemplate collection non-empty
\* leaves the collection as it is.
C8_SeedingNoOpWhenNonEmpty ==
  [][ ( last'.op = "startup" /\ legaltemplate # << >> )
      => legaltemplate' = legaltemplate ]_vars

C8_Witness ==
  /\ last.op = "startup"
  /\ db
  /\ last.existing > 0
  /\ last.inserted = 0
  /\ OneRecordPerBuiltinKey(legaltemplate)

\* C9 as stated: when no token key of the template is in the answer map, the
\* rendered text is the template itself, each token verbatim with the white
\* space inside its braces.
C9_AbsentTokenVerbatim ==
  ( /\ last.op = "render"
    /\ \A key \in PlaceholderKeys(last.template) : key \notin DOMAIN last.answers )
  => last.out = last.template

\* C10: every placeholder key of a built-in template's content and
\* acknowledgement is the key of one of its questions, and the text rendered
\* from it with a value for every question key holds no placeholder token.
C10_BuiltinTokensResolved ==
  last.op = "render_builtin"
  => LET tpl == DEFAULT_TEMPLATES[last.n]
         questionKeys == { << tpl.questions[q] >> : q \in 1..Len(tpl.questions) }
     IN  /\ PlaceholderKeys(tpl.content) \subseteq questionKeys
         /\ PlaceholderKeys(tpl.acknowledgement[1]) \subseteq questionKeys
         /\ DOMAIN last.answers = questionKeys
         /\ TokensAt(last.out) = { }

C10_Witness ==
  /\ last.op = "render_builtin"
  /\ DEFAULT_TEMPLATES[last.n].key = "promissory_note"
  /\ PlaceholderKeys(DEFAULT_TEMPLATES[last.n].content) # { }
  /\ TokensAt(last.out) = { }
  /\ \E i \in 1..Len(last.out) : last.out[i] = "7"

\* text is empty or white space only: text.strip() is empty
Blank(text) == \A i \in 1..Len(text) : text[i] \in { " ", NL, "\t" }

\* C11: body and acknowledgement are substituted each on its own with the
\* same answers; rendered_text is the rendered body, a blank line separator
\* and the rendered acknowledgement exactly when the rendered acknowledgement
\* is not blank, and the rendered body alone when the acknowledgement is
\* missing, empty or blank after substitution.
C11_AcknowledgementAppendedIffNonBlank ==
  last.op = "build"
  => LET body == render_template_text(last.tpl.content, last.req.answers)
         ack == IF last.tpl.acknowledgement = None THEN << >>
                ELSE render_template_text(last.tpl.acknowledgement[1], last.req.answers)
     IN  /\ ~Blank(ack) => last.doc.rendered_text = body \o << NL, NL >> \o ack
         /\ Blank(ack) => last.doc.rendered_text = body
         /\ ( last.doc.rendered_text = body \o << NL, NL >> \o ack ) <=> ~Blank(ack)

\* the acknowledgement holds a token whose answer is blank, so that it is
\* blank only after substitution, and the body alone is returned
C11_Witness ==
  /\ last.op = "build"
  /\ last.tpl.acknowledgement = Some(<< "{", "{", "a", "}", "}" >>)
  /\ last.req.answers = ( << "a" >> :> StrVal(<< " " >>) )
  /\ last.doc.rendered_text = render_template_text(last.tpl.content, last.req.answers)
  /\ Len(last.doc.rendered_text) > 0

\* C12: rendered_html is absent exactly when as_html is false; when as_html is
\* true, given or by default, it is text_to_html of the document's own
\* rendered_text.
C12_HtmlIffRequested ==
  last.op = "build"
  => LET wanted == IF last.as_html = None THEN TRUE ELSE last.as_html[1]
     IN  /\ ( last.doc.rendered_html = None ) <=> ~wanted
         /\ wanted => last.doc.rendered_html = Some(text_to_html(last.doc.rendered_text))

\* as_html left out of the request body, and an acknowledgement that is appended
C12_Witness ==
  /\ last.op = "build"
  /\ last.as_html = None
  /\ last.tpl.acknowledgement = Some(<< "a" >>)
  /\ last.doc.rendered_html = Some(text_to_html(last.doc.rendered_text))
  /\ \E i \in 1..Len(last.doc.rendered_html[1]) : last.doc.rendered_html[1][i] = "<br/>"

\* C13: with no database configuration (db is None, DATABASE_URL and
\* DATABASE_NAME unset) GET /test returns normally and reports the database as
\* not available, the connection as not connected, no collections, and both
\* configuration variables as not set.
C13_TestReportsUnavailable ==
  ( last.op = "test" /\ ~db /\ env = NoConfiguration )
  => /\ last.status = 200
     /\ last.body.database = "Not Available"
     /\ last.body.connection_status = "Not Connected"
     /\ last.body.collections = << >>
     /\ last.body.database_url = Some("Not Set")
     /\ last.body.database_name = Some("Not Set")

\* what GET /test does report in that case: every field as in C13 but the
\* database field, which reads "Available but not initialized"
C13_TestReportsNotInitialized ==
  ( last.op = "test" /\ ~db /\ env = NoConfiguration )
  => /\ last.status = 200
     /\ last.body.database = "Available but not initialized"
     /\ last.body.connection_status = "Not Connected"
     /\ last.body.collections = << >>
     /\ last.body.database_url = Some("Not Set")
     /\ last.body.database_name = Some("Not Set")

\* the database field never reads "Not Available", whatever the state
C13_NotAvailableNeverReported ==
  last.op = "test" => last.body.database # "Not Available"

\* the keys of the usable records of the store, and the built-in keys
StoredKeys(coll) == { TemplateOf(coll[i]).key : i \in { j \in DOMAIN coll : Usable(coll[j]) } }
BuiltinKeySet == { DEFAULT_TEMPLATES[n].key : n \in 1..Len(DEFAULT_TEMPLATES) }

\* C14: the effective catalog is never a merge: when the store yields a usable
\* template, list_templates returns templates of exactly the keys the store
\* yields, and a generate request for a built-in key of which the store holds
\* no usable record is answered 404 "Template not found".
C14_StoreReplacesCatalog ==
  ( db /\ StoredKeys(legaltemplate) # { } )
  => /\ ( last.op = "list" /\ last.status = 200 )
        => { last.body[n].key : n \in 1..Len(last.body) } = StoredKeys(legaltemplate)
     /\ ( /\ last.op = "generate"
          /\ ~last.read_raised
          /\ last.req.template_key \in BuiltinKeySet \ StoredKeys(legaltemplate) )
        => ( /\ last.status = 404
             /\ last.detail = "Template not found"
             /\ IsNone(last.body) )

\* a request for the built-in promissory note is refused while the store
\* holds a usable template of another key
C14_Witness ==
  /\ last.op = "generate"
  /\ db
  /\ ~last.read_raised
  /\ last.req.template_key = "promissory_note"
  /\ last.req.template_key \in BuiltinKeySet
  /\ StoredKeys(legaltemplate) # { }
  /\ "promissory_note" \notin StoredKeys(legaltemplate)
  /\ last.status = 404

\* the collection starts with the first k catalog entries, as a seeding
\* stopped after k inserts leaves it
StartsWithCatalogPrefix(coll, k) ==
  /\ Len(coll) >= k
  /\ IsCatalogPrefix(SubSeq(coll, 1, k), k)

PartialCounts == 1..(Len(DEFAULT_TEMPLATES) - 1)

\* C15: seeding is not atomic and is not resumed.  When an insert raises after
\* k of the eight were written (0 < k < 8), startup completes and the
\* collection holds those k records; a startup that finds the collection
\* starting with such k records and lacking a built-in key completes, inserts
\* nothing and leaves the collection as it was, so the key stays missing.
C15_PartialSeedingNeverResumed ==
  [][ last'.op = "startup"
      => /\ ( /\ db' /\ legaltemplate = << >>
              /\ last'.raised /\ last'.inserted \in PartialCounts )
            => ( /\ last'.completed
                 /\ IsCatalogPrefix(legaltemplate', last'.inserted) )
         /\ ( /\ \E k \in PartialCounts : StartsWithCatalogPrefix(legaltemplate, k)
              /\ BuiltinKeySet \ StoredKeys(legaltemplate) # { } )
            => ( /\ last'.completed
                 /\ last'.inserted = 0
                 /\ legaltemplate' = legaltemplate
                 /\ BuiltinKeySet \ StoredKeys(legaltemplate') # { } ) ]_vars

\* a startup with a handle that found k records of a seeding stopped earlier
\* (0 < k < 8) and inserted nothing
C15_Witness ==
  /\ last.op = "startup"
  /\ db
  /\ last.completed
  /\ ~last.raised
  /\ last.existing \in PartialCounts
  /\ IsCatalogPrefix(legaltemplate, last.existing)
  /\ last.inserted = 0
  /\ BuiltinKeySet \ StoredKeys(legaltemplate) # { }

=============================================================================
